---------------------------- MODULE Spec2Model ----------------------------
(***************************************************************************)
(* A model of pao_trainer.py: the statistics ledger (load_stats,           *)
(* save_stats, update_stats, get_accuracy, get_weakest_numbers,            *)
(* get_recent_numbers), the selection engine (select_number_for_training,  *)
(* generate_combination_sequences) and the training loop (training_mode    *)
(* with the tests it calls).                                               *)
(*                                                                         *)
(* Conventions of the model:                                               *)
(*  - a key is the two-character string f"{i:02d}", modelled as the pair   *)
(*    of its digits <<d1, d2>>; a combination sequence is the              *)
(*    concatenation of three keys, a sequence of six digits;               *)
(*  - the ledger self.stats is a Python dict, which keeps insertion        *)
(*    order: it is a sequence of entries with pairwise different keys;     *)
(*  - time is counted in hours; datetime.now() reads the variable now,     *)
(*    the local wall clock, which may be set back between two readings     *)
(*    (a clock adjustment, the end of daylight saving time);               *)
(*  - a float is an exact rational <<numerator, denominator>> with a       *)
(*    positive denominator (the counters of the model are far below the    *)
(*    sizes at which float rounding could reorder two scores);             *)
(*  - random.random() is a number of hundredths 0..99, random.sample is    *)
(*    driven by a seed (a start and a stride through the ordered triples). *)
(***************************************************************************)
EXTENDS Integers, Sequences, FiniteSets, TLC

\* range(100) and randint(0, 99) scaled down: the keys are 00 .. NumKeys-1.
NumKeys == 3
\* The training loop presents at most MaxGraded single-key items in a run.
MaxGraded == 2
\* update_stats is called at most MaxRecorded times on the ledger on its own.
MaxRecorded == 2
\* Seeds of random.sample: starts 0..MaxStart, strides 0..MaxStride.
MaxStart == 1
MaxStride == 1
\* Counts 0 .. MaxCount are passed to get_weakest_numbers and
\* generate_combination_sequences.
MaxCount == 4

\* last_tested: None
None == -1
\* a record of the stats file that has no "last_tested" field
NoField == -2

\* Window and pool sizes of select_number_for_training.
VeryRecentHours == 2
VeryRecentCount == 5
RecentHours == 8
RecentCount == 10
WeakCount == 15
ComboCount == 8
\* The bands of random.random(), in hundredths.
VeryRecentBand == 35
RecentBand == 50
WeakBand == 65
ComboBand == 80
\* generate_combination_sequences
LearnedHours == 48
MinCorrect == 1
SampleSize == 3
AttemptFactor == 3
SequenceLen == 6
\* find_combination_test_numbers and its callers
ComponentHours == 48
ChallengeCount == 20
MinShared == 2
RestHours == 24
RestCount == 50
\* display_stats_summary
SummaryCount == 5

----------------------------------------------------------------------------
\* Helpers

Min(a, b) == IF a < b THEN a ELSE b
Max(a, b) == IF a > b THEN a ELSE b
Range(s) == {s[i] : i \in DOMAIN s}

\* s[:n] of a Python list
Take(s, n) ==
    IF n >= 0 THEN SubSeq(s, 1, Min(n, Len(s)))
    ELSE SubSeq(s, 1, Max(Len(s) + n, 0))

\* f"{i:02d}" for 0 <= i <= 99
Fmt02(i) == <<i \div 10, i % 10>>

AllKeys == {Fmt02(i) : i \in 0 .. NumKeys - 1}

\* The list s without its p-th element.
RemoveAt(s, p) == SubSeq(s, 1, p - 1) \o SubSeq(s, p + 1, Len(s))

\* Exact rationals <<n, d>>, d > 0.
RLess(a, b) == a[1] * b[2] < b[1] * a[2]
REq(a, b) == a[1] * b[2] = b[1] * a[2]
RLeq(a, b) == a[1] * b[2] <= b[1] * a[2]

----------------------------------------------------------------------------
\* The ledger: an insertion-ordered dict key -> record.

ZeroRecord(k) ==
    [number |-> k, correct |-> 0, incorrect |-> 0, last_tested |-> None]

HasKey(d, k) == \E i \in DOMAIN d : d[i].number = k
IndexOf(d, k) == CHOOSE i \in DOMAIN d : d[i].number = k
Rec(d, k) == d[IndexOf(d, k)]
KeysOf(d) == [i \in DOMAIN d |-> d[i].number]

\* One pass of the loop of load_stats for key i.
EnsureKey(d, i) ==
    LET k == Fmt02(i) IN
    IF ~HasKey(d, k) THEN Append(d, ZeroRecord(k))
    ELSE IF Rec(d, k).last_tested = NoField
         THEN [d EXCEPT ![IndexOf(d, k)].last_tested = None]
         ELSE d

RECURSIVE EnsureAll(_, _)
EnsureAll(d, i) ==
    IF i >= NumKeys THEN d ELSE EnsureAll(EnsureKey(d, i), i + 1)

\* The ledger left empty when there is no file to read.
FreshStats_empty == <<>>

FreshStats == [i \in 1 .. NumKeys |-> ZeroRecord(Fmt02(i - 1))]

\* The files on which load_stats raises an exception that its except clause
\* (json.JSONDecodeError, IOError) does not catch: bytes that are not text
\* (UnicodeDecodeError), JSON that is not an object (TypeError).
load_raises(f) == f.kind \in {"undecodable", "notobject"}

\* load_stats: f is the stats file, [kind, data]. No ledger is built when
\* the exception leaves __init__.
load_stats(f) ==
    IF f.kind = "json" THEN EnsureAll(f.data, 0)
    ELSE IF load_raises(f) THEN <<>>
    ELSE FreshStats

\* update_stats with the two counters taken for each other.
update_stats_swapped(d, k, ok, t) ==
    LET i == IndexOf(d, k) IN
    IF ok
    THEN [d EXCEPT ![i].incorrect = @ + 1, ![i].last_tested = t]
    ELSE [d EXCEPT ![i].correct = @ + 1, ![i].last_tested = t]

\* update_stats, the ledger part; t is datetime.now().
update_stats(d, k, ok, t) ==
    LET i == IndexOf(d, k) IN
    IF ok
    THEN [d EXCEPT ![i].correct = @ + 1, ![i].last_tested = t]
    ELSE [d EXCEPT ![i].incorrect = @ + 1, ![i].last_tested = t]

\* update_stats without line 84: the session total is never counted.
update_session_without_total(s, ok) ==
    IF ok
    THEN [s EXCEPT !.correct = @ + 1]
    ELSE [s EXCEPT !.incorrect = @ + 1]

\* update_stats, the session part.
update_session(s, ok) ==
    IF ok
    THEN [s EXCEPT !.correct = @ + 1, !.total = @ + 1]
    ELSE [s EXCEPT !.incorrect = @ + 1, !.total = @ + 1]

Attempts(d, k) == Rec(d, k).correct + Rec(d, k).incorrect

\* get_accuracy dividing by the wrong answers instead of all attempts.
get_accuracy_over_incorrect(d, k) ==
    LET c == Rec(d, k).correct
        w == Rec(d, k).incorrect
    IN IF w > 0 THEN <<c * 100, w>> ELSE <<0, 1>>

get_accuracy(d, k) ==
    LET c == Rec(d, k).correct
        total == c + Rec(d, k).incorrect
    IN IF total > 0 THEN <<c * 100, total>> ELSE <<0, 1>>

\* The score with the penalty added instead of subtracted.
priority_score_plus(d, k) ==
    LET acc == get_accuracy(d, k)
        total == Rec(d, k).correct + Rec(d, k).incorrect
    IN <<10 * acc[1] + total * acc[2], 10 * acc[2]>>

\* accuracy - total_attempts * 0.1
priority_score(d, k) ==
    LET acc == get_accuracy(d, k) IN
    <<10 * acc[1] - Attempts(d, k) * acc[2], 10 * acc[2]>>

\* list.sort(key = x[2]) is stable: x goes behind every entry whose score
\* is not greater than its own.
InsertByScore(sorted, x) ==
    LET p == Cardinality({i \in DOMAIN sorted : ~RLess(x[3], sorted[i][3])})
    IN SubSeq(sorted, 1, p) \o <<x>> \o SubSeq(sorted, p + 1, Len(sorted))

\* The list left as it is: the sort forgotten.
SortByScore_none(s) == s

RECURSIVE SortByScore(_)
SortByScore(s) ==
    IF s = <<>> THEN <<>>
    ELSE InsertByScore(SortByScore(SubSeq(s, 1, Len(s) - 1)), s[Len(s)])

get_weakest_numbers(d, count) ==
    LET numbers_with_accuracy ==
            [i \in DOMAIN d |->
                <<d[i].number, get_accuracy(d, d[i].number),
                  priority_score(d, d[i].number)>>]
        top == Take(SortByScore(numbers_with_accuracy), count)
    IN [i \in DOMAIN top |-> <<top[i][1], top[i][2]>>]

\* last_tested is set and not older than the cutoff
TestedSince(r, t, hours) ==
    r.last_tested # None /\ r.last_tested >= t - hours

get_recent_numbers(d, t, hours, count) ==
    IF hours <= 0 THEN <<>>
    ELSE Take(KeysOf(SelectSeq(d, LAMBDA r : TestedSince(r, t, hours))), count)

\* The filter without the test on the correct answers.
get_recently_tested_numbers(d, t, hours, min_correct) ==
    IF hours <= 0 THEN <<>>
    ELSE KeysOf(SelectSeq(d, LAMBDA r : TestedSince(r, t, hours)))

get_recently_learned_numbers(d, t, hours, min_correct) ==
    IF hours <= 0 THEN <<>>
    ELSE KeysOf(SelectSeq(d, LAMBDA r :
                    r.correct >= min_correct /\ TestedSince(r, t, hours)))

----------------------------------------------------------------------------
\* generate_combination_sequences

\* The idx-th ordered choice of three different elements of pop.
Triple(pop, idx) ==
    LET n == Len(pop)
        a == idx \div ((n - 1) * (n - 2))
        b == (idx \div (n - 2)) % (n - 1)
        c == idx % (n - 2)
        r1 == RemoveAt(pop, a + 1)
        r2 == RemoveAt(r1, b + 1)
    IN <<pop[a + 1], r1[b + 1], r2[c + 1]>>

\* The j-th call of random.sample(pop, 3) in a run seeded with seed.
random_sample(pop, seed, j) ==
    LET n == Len(pop) IN
    Triple(pop, (seed[1] + j * seed[2]) % (n * (n - 1) * (n - 2)))

\* ''.join(selected)
Join(selected) == selected[1] \o selected[2] \o selected[3]

Seeds == (0 .. MaxStart) \X (0 .. MaxStride)

RECURSIVE CombineLoop(_, _, _, _, _)
CombineLoop(recent, seed, j, attempts, combinations) ==
    IF j >= attempts THEN combinations
    ELSE LET combination_sequence == Join(random_sample(recent, seed, j))
         IN CombineLoop(recent, seed, j + 1, attempts,
                IF combination_sequence \in Range(combinations)
                THEN combinations
                ELSE Append(combinations, combination_sequence))

generate_combination_sequences(d, t, count, seed) ==
    LET recent_numbers ==
            get_recently_learned_numbers(d, t, LearnedHours, MinCorrect)
    IN IF Len(recent_numbers) < SampleSize THEN <<>>
       ELSE Take(CombineLoop(recent_numbers, seed, 0, count * AttemptFactor,
                             <<>>), count)

----------------------------------------------------------------------------
\* select_number_for_training

\* The draws of random.random() the model takes: both sides of every band.
RandDraws == {VeryRecentBand - 1, VeryRecentBand, RecentBand - 1, RecentBand,
              WeakBand - 1, WeakBand, ComboBand - 1, ComboBand, 99}

\* [num for num, _ in self.get_weakest_numbers(15)]
weak_numbers(d) ==
    LET weakest == get_weakest_numbers(d, WeakCount)
    IN [i \in DOMAIN weakest |-> weakest[i][1]]

\* select_number_for_training comparing with <= instead of <.
select_number_inclusive(d, t, r, seed) ==
    LET very_recent ==
            get_recent_numbers(d, t, VeryRecentHours, VeryRecentCount)
        recent == get_recent_numbers(d, t, RecentHours, RecentCount)
        weak == weak_numbers(d)
        combination_sequences ==
            generate_combination_sequences(d, t, ComboCount, seed)
    IN IF r <= VeryRecentBand /\ very_recent # <<>> THEN Range(very_recent)
       ELSE IF r <= RecentBand /\ recent # <<>> THEN Range(recent)
       ELSE IF r <= WeakBand /\ weak # <<>> THEN Range(weak)
       ELSE IF r <= ComboBand /\ combination_sequences # <<>>
            THEN Range(combination_sequences)
       ELSE {Fmt02(i) : i \in 0 .. NumKeys - 1}

\* The values select_number_for_training can return when random.random()
\* draws r and random.sample runs on seed: random.choice of the pool the
\* if/elif chain picks, or a random key.
select_number_for_training(d, t, r, seed) ==
    LET very_recent ==
            get_recent_numbers(d, t, VeryRecentHours, VeryRecentCount)
        recent == get_recent_numbers(d, t, RecentHours, RecentCount)
        weak == weak_numbers(d)
        combination_sequences ==
            generate_combination_sequences(d, t, ComboCount, seed)
    IN IF r < VeryRecentBand /\ very_recent # <<>> THEN Range(very_recent)
       ELSE IF r < RecentBand /\ recent # <<>> THEN Range(recent)
       ELSE IF r < WeakBand /\ weak # <<>> THEN Range(weak)
       ELSE IF r < ComboBand /\ combination_sequences # <<>>
            THEN Range(combination_sequences)
       ELSE {Fmt02(i) : i \in 0 .. NumKeys - 1}

\* The branch of the if/elif chain of select_number_for_training that
\* returns, for the draw r and the run seed of random.sample.
selected_band(d, t, r, seed) ==
    LET very_recent ==
            get_recent_numbers(d, t, VeryRecentHours, VeryRecentCount)
        recent == get_recent_numbers(d, t, RecentHours, RecentCount)
        weak == weak_numbers(d)
        combination_sequences ==
            generate_combination_sequences(d, t, ComboCount, seed)
    IN IF r < VeryRecentBand /\ very_recent # <<>> THEN "very_recent"
       ELSE IF r < RecentBand /\ recent # <<>> THEN "recent"
       ELSE IF r < WeakBand /\ weak # <<>> THEN "weak"
       ELSE IF r < ComboBand /\ combination_sequences # <<>>
            THEN "combination"
       ELSE "random"

----------------------------------------------------------------------------
\* The stats file and save_stats

NoFile == [kind |-> "absent", data |-> <<>>]
JsonFile(d) == [kind |-> "json", data |-> d]

\* The outcomes of save_stats: written, or an IOError reported and swallowed.
SaveOutcomes == {"ok", "ioerror"}

\* save_stats: the file it leaves (the old one when the write raised).
save_stats(f, d, io) == IF io = "ok" THEN JsonFile(d) ELSE f

\* The readings of datetime.now() the model takes.
ClockReadings == {50, 99}
FirstReading == CHOOSE t \in ClockReadings : \A u \in ClockReadings : t <= u

Entry(i, c, w, t) ==
    [number |-> Fmt02(i), correct |-> c, incorrect |-> w, last_tested |-> t]

\* The stats files a run may find: none, one that cannot be opened, one that
\* is text but not JSON, one whose bytes are not text, one that is JSON but
\* not an object, one with records of some keys only, one whose keys were
\* all answered correctly within 48 hours, and one written without
\* last_tested.
InitFiles ==
    { NoFile,
      [kind |-> "unreadable", data |-> <<>>],
      [kind |-> "corrupt", data |-> <<>>],
      [kind |-> "undecodable", data |-> <<>>],
      [kind |-> "notobject", data |-> <<>>],
      JsonFile(<<Entry(1, 0, 2, 49), Entry(2, 1, 31, 10)>>),
      JsonFile(<<Entry(0, 2, 1, 49), Entry(1, 1, 0, 45), Entry(2, 1, 0, 10)>>),
      JsonFile(<<Entry(2, 1, 1, NoField), Entry(0, 3, 0, 0)>>) }

----------------------------------------------------------------------------
\* The associations: self.pao_data, an insertion-ordered dict
\* key -> {person, action, object}, filled by load_pao_data from the rows
\* of the CSV file. A component is a name, modelled as a number.

Row(n, p, a, o) ==
    [number |-> Fmt02(n), person |-> p, action |-> a, object |-> o]

\* A CSV file with one row for every key, no component used twice.
CompleteData == [i \in 1 .. NumKeys |-> Row(i - 1, i - 1, i - 1, i - 1)]

\* A CSV file in which key 00 has the person and the action of key 01.
SharedData == [CompleteData EXCEPT ![1] = Row(0, 1, 1, 0)]

\* A CSV file without a row for the last key.
SparseData == SubSeq(CompleteData, 1, NumKeys - 1)

Datasets == {CompleteData, SharedData, SparseData}

\* number in self.pao_data, self.pao_data[number]
HasAssoc(p, k) == \E i \in DOMAIN p : p[i].number = k
Assoc(p, k) == p[CHOOSE i \in DOMAIN p : p[i].number = k]

\* The pairs of an item: the key itself, or the three keys of a sequence.
Pairs(n) == {SubSeq(n, 2 * j - 1, 2 * j) : j \in 1 .. Len(n) \div 2}

\* The keys whose components get_recent_components collects: answered
\* correctly at least once, last tested not before the cutoff.
recent_component_keys(d, t, hours) ==
    IF hours <= 0 THEN <<>>
    ELSE KeysOf(SelectSeq(d, LAMBDA r :
                    r.correct > 0 /\ TestedSince(r, t, hours)))

\* get_recent_components raises KeyError at self.pao_data[number] when one
\* of these keys has no association.
get_recent_components_raises(d, p, t, hours) ==
    \E k \in Range(recent_component_keys(d, t, hours)) : ~HasAssoc(p, k)

\* get_recent_components: the three lists are only tested for membership
\* and for being empty, so they are sets here.
get_recent_components(d, p, t, hours) ==
    LET ks == Range(recent_component_keys(d, t, hours)) IN
    [persons |-> {Assoc(p, k).person : k \in ks},
     actions |-> {Assoc(p, k).action : k \in ks},
     objects |-> {Assoc(p, k).object : k \in ks}]

\* sum([uses_recent_person, uses_recent_action, uses_recent_object])
recent_component_count(row, rc) ==
    (IF row.person \in rc.persons THEN 1 ELSE 0)
    + (IF row.action \in rc.actions THEN 1 ELSE 0)
    + (IF row.object \in rc.objects THEN 1 ELSE 0)

find_combination_test_numbers(d, p, t, count) ==
    LET rc == get_recent_components(d, p, t, ComponentHours)
        recently_tested == get_recent_numbers(d, t, RestHours, RestCount)
    IN IF rc.persons = {} /\ rc.actions = {} /\ rc.objects = {} THEN <<>>
       ELSE Take(KeysOf(SelectSeq(p, LAMBDA row :
                    /\ recent_component_count(row, rc) >= MinShared
                    /\ row.number \notin Range(recently_tested))), count)

\* test_number_comprehensive and test_combination_sequence raise KeyError
\* before their first input(): the item has a pair without an association
\* (lines 297 and 590-592), or get_recent_components raises (line 304).
presenting_raises(d, p, t, n) ==
    \/ \E k \in Pairs(n) : ~HasAssoc(p, k)
    \/ Len(n) # SequenceLen
         /\ get_recent_components_raises(d, p, t, ComponentHours)

\* is_combination_test of test_number_comprehensive
combination_test(d, p, t, n) ==
    /\ Len(n) # SequenceLen
    /\ n \in Range(find_combination_test_numbers(d, p, t, ChallengeCount))

\* display_stats_summary raises KeyError at line 183: one of the 5 weakest
\* keys has attempts and no association.
display_stats_summary_raises(d, p) ==
    LET weakest == get_weakest_numbers(d, SummaryCount) IN
    \E i \in DOMAIN weakest :
        Attempts(d, weakest[i][1]) > 0 /\ ~HasAssoc(p, weakest[i][1])

\* show_detailed_stats raises KeyError at line 450: a key of the ledger has
\* no association.
show_detailed_stats_raises(d, p) ==
    \E i \in DOMAIN d : ~HasAssoc(p, d[i].number)

\* The sum of correct + incorrect over all Records (display_stats_summary,
\* lines 166-168).
RECURSIVE total_attempts(_)
total_attempts(d) ==
    IF d = <<>> THEN 0
    ELSE d[Len(d)].correct + d[Len(d)].incorrect
         + total_attempts(SubSeq(d, 1, Len(d) - 1))

----------------------------------------------------------------------------
\* The state of a run

VARIABLES
    stats,          \* self.stats
    session_stats,  \* self.session_stats
    file,           \* the contents of stats_file
    now,            \* datetime.now()
    pc,             \* where the run is blocked
    number,         \* the item under test, <<>> between two tests
    all_correct,    \* whether the answers given so far in this test match
    correct,        \* the result of the last test, "none" before the first
    user_input,     \* the command read at the continue prompt
    rand,           \* the draw of the select_number_for_training just made
    ended_by,       \* what left the loop: "quit", "interrupt", "eof"
    ended_at,       \* the prompt at which the loop was left
    save_result,    \* the outcome of save_stats, "none" before it ran
    pao_data,       \* self.pao_data
    is_combination_test,  \* the local of test_number_comprehensive
    graded,         \* history: the single-key tests that have returned
    attempts_at_load      \* history: total_attempts of the ledger loaded

vars == <<stats, session_stats, file, now, pc, number, all_correct, correct,
          user_input, rand, ended_by, ended_at, save_result, pao_data,
          is_combination_test, graded, attempts_at_load>>

\* The blocking calls of input() in training_mode and the tests it calls.
Prompts == {"study", "person", "action", "object", "number", "continue",
            "after_stats"}

Init ==
    /\ file \in InitFiles
    /\ stats = load_stats(file)
    /\ session_stats = [correct |-> 0, incorrect |-> 0, total |-> 0]
    /\ now = FirstReading
    /\ pc = IF load_raises(file) THEN "crashed" ELSE "start"
    /\ number = <<>>
    /\ all_correct = TRUE
    /\ correct = "none"
    /\ user_input = "none"
    /\ rand = None
    /\ ended_by = "none"
    /\ ended_at = "none"
    /\ save_result = "none"
    /\ pao_data = CompleteData
    /\ is_combination_test = FALSE
    /\ graded = 0
    /\ attempts_at_load = total_attempts(stats)

\* The study phase left out: every key goes straight to a test in a
\* direction drawn at random.
FirstPrompt_no_study(d, n) ==
    IF Len(n) = SequenceLen THEN {"person"} ELSE {"person", "number"}

\* test_number_comprehensive up to its first input(): a first encounter
\* shows the association and waits, a later one draws the direction.
FirstPrompt(d, n) ==
    IF Len(n) = SequenceLen THEN {"person"}
    ELSE IF Attempts(d, n) = 0 THEN {"study"}
    ELSE {"person", "number"}

\* A KeyError raised while n is presented, or with no item under test: the
\* try of training_mode catches KeyboardInterrupt and EOFError only, so the
\* exception ends the program with a traceback and save_stats does not run.
KeyError(n) ==
    /\ pc' = "keyerror"
    /\ number' = n
    /\ all_correct' = TRUE
    /\ correct' = "none"
    /\ rand' = None
    /\ is_combination_test' = FALSE
    /\ UNCHANGED <<stats, session_stats, file, now, ended_by, ended_at,
                   save_result, pao_data, graded, attempts_at_load>>

\* One pass of the while loop from its top to the first input() of the test.
NextItem ==
    /\ session_stats.total < MaxGraded
    /\ \E r \in RandDraws :
         \E n \in UNION {select_number_for_training(stats, now, r, seed) :
                            seed \in Seeds} :
            IF presenting_raises(stats, pao_data, now, n)
            THEN KeyError(n)
            ELSE /\ number' = n
                 /\ rand' = r
                 /\ pc' \in FirstPrompt(stats, n)
                 /\ is_combination_test' =
                        combination_test(stats, pao_data, now, n)
                 /\ all_correct' = TRUE
                 /\ UNCHANGED <<stats, session_stats, file, now, correct,
                                ended_by, ended_at, save_result, pao_data,
                                graded, attempts_at_load>>

\* The lines after the loop: save_stats, then training_mode returns and its
\* locals are gone.
Finish(why) ==
    /\ \E io \in SaveOutcomes :
         /\ file' = save_stats(file, stats, io)
         /\ save_result' = io
    /\ pc' = "done"
    /\ ended_by' = why
    /\ ended_at' = pc
    /\ number' = <<>>
    /\ all_correct' = TRUE
    /\ correct' = "none"
    /\ rand' = None
    /\ is_combination_test' = FALSE
    /\ UNCHANGED <<stats, session_stats, now, pao_data, graded,
                   attempts_at_load>>

\* The ledger written for a sequence too, under its first pair.
record_result_always(d, n, ok, t) == update_stats(d, SubSeq(n, 1, 2), ok, t)

\* What lines 383-390 write to the ledger for the graded item n.
record_result(d, n, ok, t) ==
    IF Len(n) = SequenceLen THEN d ELSE update_stats(d, n, ok, t)

record_session(s, n, ok) ==
    IF Len(n) = SequenceLen THEN s ELSE update_session(s, ok)

\* run() in train mode: the first pass of the loop.
Run ==
    /\ pc = "start"
    /\ user_input' = "none"
    /\ IF display_stats_summary_raises(stats, pao_data)
       THEN KeyError(<<>>)
       ELSE NextItem

\* input("Press Enter when ready to be tested: ") returns.
Ack ==
    /\ pc = "study"
    /\ pc' = "person"
    /\ rand' = None
    /\ user_input' = "none"
    /\ UNCHANGED <<stats, session_stats, file, now, number, all_correct,
                   correct, ended_by, ended_at, save_result, pao_data,
                   is_combination_test, graded, attempts_at_load>>

\* input("Person: ") and input("Action: ") return; ok: the answer matches.
AnswerField ==
    /\ pc \in {"person", "action"}
    /\ \E ok \in BOOLEAN : all_correct' = (all_correct /\ ok)
    /\ pc' = IF pc = "person" THEN "action" ELSE "object"
    /\ rand' = None
    /\ user_input' = "none"
    /\ UNCHANGED <<stats, session_stats, file, now, number, correct, ended_by,
                   ended_at, save_result, pao_data, is_combination_test,
                   graded, attempts_at_load>>

\* The failure report of test_number_comprehensive calls
\* get_recent_components again (line 352) for a failed combination
\* challenge that is no first encounter.
report_raises(d, p, t, n, ok, flag) ==
    /\ ~ok
    /\ Len(n) # SequenceLen
    /\ Attempts(d, n) > 0
    /\ flag
    /\ get_recent_components_raises(d, p, t, ComponentHours)

\* The single-key tests that have returned, after the test of n.
count_graded(g, n) == IF Len(n) = SequenceLen THEN g ELSE g + 1

\* The item is graded and the loop runs on to the continue prompt.
Graded(ok) ==
    /\ user_input' = "none"
    /\ IF report_raises(stats, pao_data, now, number, ok, is_combination_test)
       THEN KeyError(number)
       ELSE /\ stats' = record_result(stats, number, ok, now)
            /\ session_stats' = record_session(session_stats, number, ok)
            /\ correct' = IF ok THEN "yes" ELSE "no"
            /\ pc' = "continue"
            /\ all_correct' = TRUE
            /\ rand' = None
            /\ number' = <<>>
            /\ is_combination_test' = FALSE
            /\ graded' = count_graded(graded, number)
            /\ UNCHANGED <<file, now, ended_by, ended_at, save_result,
                           pao_data, attempts_at_load>>

\* input("Object: ") returns: all three components must match.
AnswerObject ==
    /\ pc = "object"
    /\ \E ok \in BOOLEAN : Graded(all_correct /\ ok)

\* input("Number: ") of the reverse test returns.
AnswerNumber ==
    /\ pc = "number"
    /\ \E ok \in BOOLEAN : Graded(ok)

\* 'quit' taken for any other input: the break forgotten.
Quit_ignored ==
    /\ pc = "continue"
    /\ user_input' = "quit"
    /\ NextItem

\* The continue prompt returns 'quit': break.
Quit ==
    /\ pc = "continue"
    /\ user_input' = "quit"
    /\ Finish("quit")

\* The continue prompt returns 'stats': show_detailed_stats, then input().
Stats ==
    /\ pc = "continue"
    /\ user_input' = "stats"
    /\ IF show_detailed_stats_raises(stats, pao_data)
       THEN KeyError(number)
       ELSE /\ pc' = "after_stats"
            /\ UNCHANGED <<stats, session_stats, file, now, number,
                           all_correct, correct, rand, ended_by, ended_at,
                           save_result, pao_data, is_combination_test,
                           graded, attempts_at_load>>

\* The continue prompt returns anything else: the next pass.
Continue ==
    /\ pc = "continue"
    /\ user_input' = "other"
    /\ NextItem

\* input("Press Enter to continue training...") returns: the next pass.
Resume ==
    /\ pc = "after_stats"
    /\ UNCHANGED user_input
    /\ NextItem

\* The KeyboardInterrupt not caught: the run ends without save_stats.
Interrupt_uncaught ==
    /\ pc \in Prompts
    /\ pc' = "done"
    /\ ended_by' = "interrupt"
    /\ ended_at' = pc
    /\ number' = <<>>
    /\ all_correct' = TRUE
    /\ correct' = "none"
    /\ rand' = None
    /\ is_combination_test' = FALSE
    /\ UNCHANGED <<stats, session_stats, file, now, user_input, save_result,
                   pao_data, graded, attempts_at_load>>

\* KeyboardInterrupt raised by an input(): break.
Interrupt ==
    /\ pc \in Prompts
    /\ UNCHANGED user_input
    /\ Finish("interrupt")

\* EOFError raised by an input(): break.
EndOfInput ==
    /\ pc \in Prompts
    /\ UNCHANGED user_input
    /\ Finish("eof")

\* The clock moves while the run waits for input. It is read by
\* update_stats and by the next selection only, so the model lets it move
\* at the prompts right before them.
Tick ==
    /\ pc \in {"object", "number", "continue"}
    /\ now' \in ClockReadings \ {now}
    /\ UNCHANGED <<stats, session_stats, file, pc, number, all_correct,
                   correct, user_input, rand, ended_by, ended_at, save_result,
                   pao_data, is_combination_test, graded, attempts_at_load>>

Next ==
    \/ Run
    \/ Ack
    \/ AnswerField
    \/ AnswerObject
    \/ AnswerNumber
    \/ Quit
    \/ Stats
    \/ Continue
    \/ Resume
    \/ Interrupt
    \/ EndOfInput
    \/ Tick

Spec == Init /\ [][Next]_vars

\* A run on any of the CSV files.
InitData ==
    /\ file \in InitFiles
    /\ stats = load_stats(file)
    /\ session_stats = [correct |-> 0, incorrect |-> 0, total |-> 0]
    /\ now = FirstReading
    /\ pc = IF load_raises(file) THEN "crashed" ELSE "start"
    /\ number = <<>>
    /\ all_correct = TRUE
    /\ correct = "none"
    /\ user_input = "none"
    /\ rand = None
    /\ ended_by = "none"
    /\ ended_at = "none"
    /\ save_result = "none"
    /\ pao_data \in Datasets
    /\ is_combination_test = FALSE
    /\ graded = 0
    /\ attempts_at_load = total_attempts(stats)

SpecData == InitData /\ [][Next]_vars

----------------------------------------------------------------------------
\* The ledger on its own: load_stats, then update_stats called for any key
\* with any outcome at any reading of the clock.

InitLedger ==
    /\ file \in {f \in InitFiles : ~load_raises(f)}
    /\ stats = load_stats(file)
    /\ session_stats = [correct |-> 0, incorrect |-> 0, total |-> 0]
    /\ now = FirstReading
    /\ pc = "ledger"
    /\ number = <<>>
    /\ all_correct = TRUE
    /\ correct = "none"
    /\ user_input = "none"
    /\ rand = None
    /\ ended_by = "none"
    /\ ended_at = "none"
    /\ save_result = "none"
    /\ pao_data = CompleteData
    /\ is_combination_test = FALSE
    /\ graded = 0
    /\ attempts_at_load = total_attempts(stats)

RecordAttempt ==
    /\ pc = "ledger"
    /\ session_stats.total < MaxRecorded
    /\ \E k \in AllKeys, ok \in BOOLEAN :
         /\ stats' = update_stats(stats, k, ok, now)
         /\ session_stats' = update_session(session_stats, ok)
         /\ correct' = IF ok THEN "yes" ELSE "no"
    /\ graded' = graded + 1
    /\ UNCHANGED <<file, now, pc, number, all_correct, user_input, rand,
                   ended_by, ended_at, save_result, pao_data,
                   is_combination_test, attempts_at_load>>

ClockAdvance ==
    /\ pc = "ledger"
    /\ now' \in ClockReadings \ {now}
    /\ UNCHANGED <<stats, session_stats, file, pc, number, all_correct,
                   correct, user_input, rand, ended_by, ended_at, save_result,
                   pao_data, is_combination_test, graded, attempts_at_load>>

NextLedger ==
    \/ RecordAttempt
    \/ ClockAdvance

SpecLedger == InitLedger /\ [][NextLedger]_vars

----------------------------------------------------------------------------
\* Properties

ItemPrompts == {"study", "person", "number"}

\* A step that grades a single-key item.
GradesKey == pc \in {"object", "number"} /\ pc' = "continue" /\ Len(number) = 2

\* A step that runs select_number_for_training.
Selects == pc \in {"start", "continue", "after_stats"} /\ pc' \in ItemPrompts

\* The counters after update_stats(k, ok): the matching one is one higher,
\* the other one is as before.
CountsOneAttempt(before, after, ok) ==
    IF ok
    THEN after.correct = before.correct + 1
         /\ after.incorrect = before.incorrect
    ELSE after.incorrect = before.incorrect + 1
         /\ after.correct = before.correct

\* C1, as claimed: update_stats(k, True) adds exactly 1 to correct(k) and
\* leaves incorrect(k) alone, update_stats(k, False) adds exactly 1 to
\* incorrect(k) and leaves correct(k) alone, and in both cases last_tested(k)
\* is set to a time greater than or equal to its previous value.
C1_LastTestedNeverDecreases ==
    [][GradesKey =>
        LET before == Rec(stats, number)
            after == Rec(stats', number)
        IN /\ correct' \in {"yes", "no"}
           /\ CountsOneAttempt(before, after, correct' = "yes")
           /\ after.last_tested # None
           /\ after.last_tested >= before.last_tested]_vars

\* C1, amended: update_stats(k, True) adds exactly 1 to correct(k) and
\* leaves incorrect(k) alone, update_stats(k, False) adds exactly 1 to
\* incorrect(k) and leaves correct(k) alone, and in both cases last_tested(k)
\* is set to the reading of the clock at the call; it is greater than or
\* equal to its previous value when that value is absent or not later than
\* the reading.
C1_RecordAttempt ==
    [][GradesKey =>
        LET before == Rec(stats, number)
            after == Rec(stats', number)
        IN /\ correct' \in {"yes", "no"}
           /\ CountsOneAttempt(before, after, correct' = "yes")
           /\ after.last_tested = now
           /\ (before.last_tested = None \/ before.last_tested <= now) =>
                after.last_tested >= before.last_tested]_vars

\* A wrong answer was recorded for a key that had been tested before, at a
\* later reading of the clock.
C1_Witness ==
    /\ pc = "continue"
    /\ correct = "no"
    /\ now > FirstReading
    /\ \E k \in AllKeys :
         /\ Rec(stats, k).last_tested = now
         /\ Rec(stats, k).incorrect >= 3

\* C2: in every reachable state, for every key, the accuracy
\* 100 * correct / (correct + incorrect) lies in [0, 100], and it is 0 when
\* the key has no attempts.
C2_AccuracyRange ==
    \A i \in DOMAIN stats :
        LET k == stats[i].number
            acc == get_accuracy(stats, k)
        IN /\ acc[2] > 0
           /\ RLeq(<<0, 1>>, acc)
           /\ RLeq(acc, <<100, 1>>)
           /\ Attempts(stats, k) = 0 => REq(acc, <<0, 1>>)
           /\ Attempts(stats, k) > 0 =>
                REq(acc, <<100 * stats[i].correct, Attempts(stats, k)>>)

\* After a grading event the ledger holds a key with an accuracy strictly
\* between 0 and 100, one with accuracy 100 and one without attempts.
C2_Witness ==
    /\ session_stats.total >= 1
    /\ \E k \in AllKeys : Attempts(stats, k) = 0
    /\ \E k \in AllKeys : REq(get_accuracy(stats, k), <<100, 1>>)
    /\ \E k \in AllKeys :
         /\ RLess(<<0, 1>>, get_accuracy(stats, k))
         /\ RLess(get_accuracy(stats, k), <<100, 1>>)

\* The i-th pool of select_number_for_training as a set, in the order of
\* the bands; the combos pool over every run of random.sample.
PoolSet(d, t, i) ==
    CASE i = 1 ->
            Range(get_recent_numbers(d, t, VeryRecentHours, VeryRecentCount))
      [] i = 2 -> Range(get_recent_numbers(d, t, RecentHours, RecentCount))
      [] i = 3 -> Range(weak_numbers(d))
      [] i = 4 ->
            UNION {Range(generate_combination_sequences(d, t, ComboCount,
                                                        seed)) :
                      seed \in Seeds}

BandBounds == <<VeryRecentBand, RecentBand, WeakBand, ComboBand>>

\* The pool the draw r falls to, looked for from band i on: the first one,
\* in band order, whose upper bound is above r and which is not empty; the
\* keys 00-99 when there is none.
RECURSIVE ExpectedPoolFrom(_, _, _, _)
ExpectedPoolFrom(d, t, r, i) ==
    IF i > Len(BandBounds) THEN AllKeys
    ELSE IF BandBounds[i] <= r THEN ExpectedPoolFrom(d, t, r, i + 1)
    ELSE LET pool == PoolSet(d, t, i)
         IN IF pool = {} THEN ExpectedPoolFrom(d, t, r, i + 1) ELSE pool

ExpectedPool(d, t, r) == ExpectedPoolFrom(d, t, r, 1)

\* C3: for every draw r, select_number_for_training returns a member of the
\* first non-empty pool, in the order veryRecent (0.35), recent (0.50),
\* weak (0.65), combos (0.80), whose upper bound is greater than r, and a
\* two-digit key 00-99 when there is no such pool.
C3_BandSelection ==
    [][Selects => number' \in ExpectedPool(stats, now, rand')]_vars

\* The draw 0.65 met a non-empty weak pool whose band it is above, and a
\* combination sequence was returned.
C3_Witness ==
    /\ pc = "person"
    /\ rand = WeakBand
    /\ Len(number) = SequenceLen
    /\ weak_numbers(stats) # <<>>

\* C4: while a combination sequence is presented and graded, with either
\* outcome, update_stats is not called: no Record and no session counter
\* changes.
C4_ComboLeavesLedger ==
    [][Len(number) = SequenceLen =>
        stats' = stats /\ session_stats' = session_stats]_vars

\* A combination sequence was graded correct, the only test of the run so
\* far.
C4_Witness ==
    /\ pc = "continue"
    /\ correct = "yes"
    /\ session_stats.total = 0

\* The priority score of the claims, accuracy - 0.1 * attempts, from the
\* counters: 100 * correct / attempts - attempts / 10, and 0 without attempts.
Score(d, k) ==
    LET c == Rec(d, k).correct
        n == Rec(d, k).correct + Rec(d, k).incorrect
    IN IF n = 0 THEN <<0, 1>> ELSE <<1000 * c - n * n, 10 * n>>

\* C5: for every n >= 0, get_weakest_numbers(n) returns at most n entries,
\* each the pair (key, accuracy(key)) of a ledger key, no key twice, with the
\* score accuracy - 0.1 * attempts never decreasing along the list, and no
\* key left out has a strictly lower score than a key returned.
C5_WeakestKeys ==
    \A n \in 0 .. MaxCount :
        LET w == get_weakest_numbers(stats, n)
            returned == {w[i][1] : i \in DOMAIN w}
        IN /\ Len(w) <= n
           /\ Len(w) = Min(n, Len(stats))
           /\ \A i \in DOMAIN w :
                /\ HasKey(stats, w[i][1])
                /\ w[i][2] = get_accuracy(stats, w[i][1])
           /\ \A i, j \in DOMAIN w : i # j => w[i][1] # w[j][1]
           /\ \A i, j \in DOMAIN w :
                i < j => RLeq(Score(stats, w[i][1]), Score(stats, w[j][1]))
           /\ \A a \in DOMAIN stats :
                stats[a].number \notin returned =>
                    \A k \in returned :
                        ~RLess(Score(stats, stats[a].number), Score(stats, k))

\* After a grading event three keys have three different scores, the dict
\* order is not the score order, and a count of 2 leaves the highest out.
C5_Witness ==
    /\ session_stats.total >= 1
    /\ \E a, b, c \in AllKeys :
         /\ RLess(Score(stats, a), Score(stats, b))
         /\ RLess(Score(stats, b), Score(stats, c))
         /\ IndexOf(stats, b) < IndexOf(stats, a)
         /\ get_weakest_numbers(stats, 2) =
                <<<<a, get_accuracy(stats, a)>>, <<b, get_accuracy(stats, b)>>>>

Untested(d, k) == Attempts(d, k) = 0
NoCorrect(d, k) == Attempts(d, k) > 0 /\ Rec(d, k).correct = 0
PositiveAccuracy(d, k) == RLess(<<0, 1>>, get_accuracy(d, k))
PositiveScore(d, k) == RLess(<<0, 1>>, Score(d, k))

\* C6, as claimed: in the order of get_weakest_numbers every untested key
\* comes after every tested key without a correct answer and before every
\* key whose accuracy is positive.
C6_UntestedBeforePositiveAccuracy ==
    \A n \in 0 .. MaxCount :
        LET w == get_weakest_numbers(stats, n) IN
        \A i, j \in DOMAIN w :
            Untested(stats, w[i][1]) =>
                /\ NoCorrect(stats, w[j][1]) => j < i
                /\ PositiveAccuracy(stats, w[j][1]) => i < j

\* C6, amended: in the order of get_weakest_numbers every untested key
\* (score 0) comes after every tested key without a correct answer
\* (score < 0) and before every key whose score accuracy - 0.1 * attempts is
\* positive.
C6_UntestedBeforePositiveScore ==
    \A n \in 0 .. MaxCount :
        LET w == get_weakest_numbers(stats, n) IN
        \A i, j \in DOMAIN w :
            Untested(stats, w[i][1]) =>
                /\ REq(Score(stats, w[i][1]), <<0, 1>>)
                /\ NoCorrect(stats, w[j][1]) =>
                     j < i /\ RLess(Score(stats, w[j][1]), <<0, 1>>)
                /\ PositiveScore(stats, w[j][1]) => i < j

\* After a grading event the full order holds a key without a correct
\* answer, then an untested key, then a key with a positive score.
C6_Witness ==
    /\ session_stats.total >= 1
    /\ LET w == get_weakest_numbers(stats, Len(stats)) IN
       \E i, j, l \in DOMAIN w :
            /\ i < j /\ j < l
            /\ NoCorrect(stats, w[i][1])
            /\ Untested(stats, w[j][1])
            /\ PositiveScore(stats, w[l][1])

\* The keys with at least one correct answer whose last test is not older
\* than 48 hours.
RecentlyLearned(d, t) ==
    {d[i].number : i \in {j \in DOMAIN d :
        /\ d[j].last_tested # None
        /\ d[j].last_tested >= t - LearnedHours
        /\ d[j].correct >= 1}}

\* C7: generate_combination_sequences(count) returns the empty list when
\* fewer than 3 keys are recently learned; otherwise at most count
\* sequences, no two the same, each the concatenation of three different
\* keys that are all recently learned.
C7_Combinations ==
    \A count \in 0 .. MaxCount, seed \in Seeds :
        LET c == generate_combination_sequences(stats, now, count, seed)
            learned == RecentlyLearned(stats, now)
        IN IF Cardinality(learned) < 3 THEN c = <<>>
           ELSE /\ Len(c) <= count
                /\ \A i, j \in DOMAIN c : i # j => c[i] # c[j]
                /\ \A i \in DOMAIN c :
                     LET k1 == SubSeq(c[i], 1, 2)
                         k2 == SubSeq(c[i], 3, 4)
                         k3 == SubSeq(c[i], 5, 6)
                     IN /\ Len(c[i]) = SequenceLen
                        /\ {k1, k2, k3} \subseteq learned
                        /\ k1 # k2 /\ k1 # k3 /\ k2 # k3

\* After a grading event three keys are recently learned and a count of 2
\* cuts the list of the sequences found to 2.
C7_Witness ==
    /\ session_stats.total >= 1
    /\ Cardinality(RecentlyLearned(stats, now)) >= 3
    /\ Len(generate_combination_sequences(stats, now, 2, <<0, 1>>)) = 2
    /\ Len(generate_combination_sequences(stats, now, 2, <<0, 0>>)) = 1

\* C8: a KeyboardInterrupt at any prompt of train mode leaves the loop and
\* save_stats runs on the ledger before training_mode returns: the file
\* holds the ledger, unless the write itself raised the IOError that
\* save_stats reports. No run ends without save_stats.
C8_InterruptSaves ==
    /\ pc \in Prompts => ENABLED Interrupt
    /\ pc = "done" => save_result \in SaveOutcomes
    /\ ended_by = "interrupt" =>
         /\ pc = "done"
         /\ ended_at \in Prompts
         /\ save_result \in SaveOutcomes
         /\ save_result = "ok" => file = JsonFile(stats)

\* The run was interrupted at the prompt that follows the inline report,
\* after a grading event, and the file holds the ledger.
C8_Witness ==
    /\ pc = "done"
    /\ ended_by = "interrupt"
    /\ ended_at = "after_stats"
    /\ session_stats.total >= 1
    /\ file = JsonFile(stats)

\* C9: at the continue prompt 'quit' ends the loop, save_stats runs and no
\* further item is presented; 'stats' shows the report and waits, then the
\* next item is presented, the ledger unchanged; any other input leads to
\* the next item at once.
C9_Commands ==
    [][/\ (pc = "continue" /\ user_input' = "quit") =>
            /\ pc' = "done"
            /\ number' = <<>>
            /\ stats' = stats
            /\ save_result' \in SaveOutcomes
            /\ save_result' = "ok" => file' = JsonFile(stats)
       /\ (pc = "continue" /\ user_input' = "stats") =>
            /\ pc' = "after_stats"
            /\ stats' = stats /\ session_stats' = session_stats
            /\ file' = file
       /\ (pc = "after_stats" /\ pc' \notin {"after_stats", "done"}) =>
            /\ pc' \in ItemPrompts
            /\ number' # <<>>
            /\ stats' = stats /\ session_stats' = session_stats
            /\ file' = file
       /\ (pc = "continue" /\ user_input' = "other") =>
            /\ pc' \in ItemPrompts
            /\ number' # <<>>
            /\ stats' = stats /\ session_stats' = session_stats
            /\ file' = file
       /\ pc = "done" => pc' = "done"]_vars

\* After a grading event 'stats' was entered, the prompt after the report
\* was answered and the next item is presented.
C9_Witness ==
    /\ pc \in ItemPrompts
    /\ user_input = "stats"
    /\ number # <<>>
    /\ session_stats.total >= 1

\* A record of the stats file as load_stats keeps it.
Loaded(e) == [e EXCEPT !.last_tested = IF @ = NoField THEN None ELSE @]

\* The ledger holds one Record for every key, the records of the file are
\* kept, a key the file lacks has an all-zero Record, and a file that gives
\* no records gives the all-zero ledger.
LedgerCoversKeys ==
    /\ \A k \in AllKeys : HasKey(stats, k)
    /\ \A i, j \in DOMAIN stats : i # j => stats[i].number # stats[j].number
    /\ \A i \in DOMAIN stats : stats[i].last_tested # NoField
    /\ file.kind = "json" =>
         \A i \in DOMAIN file.data : HasKey(stats, file.data[i].number)
    /\ pc \in {"start", "crashed"} =>
         IF file.kind = "json"
         THEN /\ \A i \in DOMAIN file.data :
                   Rec(stats, file.data[i].number) = Loaded(file.data[i])
              /\ \A k \in AllKeys :
                   ~HasKey(file.data, k) => Rec(stats, k) = ZeroRecord(k)
         ELSE /\ Len(stats) = NumKeys
              /\ \A k \in AllKeys : Rec(stats, k) = ZeroRecord(k)

\* C10, as claimed: after load_stats and after any grading events the ledger
\* holds one Record for every key 00-99; the records of the file are kept, a
\* key the file lacks has correct = 0, incorrect = 0 and no last_tested, a
\* file that is absent, unreadable or corrupt gives the all-zero ledger
\* without a crash, and no Record is removed.
C10_LedgerCoversKeys ==
    /\ pc # "crashed"
    /\ LedgerCoversKeys

\* C10, for the files load_stats gets through (absent, not to be opened, text
\* that is not JSON, a JSON object of records): the ledger covers every key
\* as claimed; load_stats raises on the other files and on no others.
C10_LoadedLedgerCoversKeys ==
    /\ pc = "crashed" <=> load_raises(file)
    /\ pc # "crashed" => LedgerCoversKeys

\* A file with records of some keys only, one without last_tested, was
\* loaded and an item has been graded since.
C10_Witness ==
    /\ pc = "continue"
    /\ session_stats.total >= 1
    /\ file.kind = "json"
    /\ Len(file.data) < NumKeys
    /\ \E i \in DOMAIN file.data : file.data[i].last_tested = NoField

\* C11: a single key without attempts is presented with the study phase
\* (the association shown, then the acknowledgment prompt), and the test
\* after the acknowledgment is the forward test of that key, which runs
\* through Person, Action and Object and never asks for the number; a key
\* with attempts is presented without the study phase, with the forward or
\* the reverse test.
C11_FirstEncounter ==
    [][/\ (Selects /\ Len(number') = 2) =>
            /\ Attempts(stats, number') = 0 => pc' = "study"
            /\ Attempts(stats, number') > 0 => pc' \in {"person", "number"}
       /\ (pc = "study" /\ pc' \notin {"study", "done"}) =>
            /\ pc' = "person"
            /\ number' = number
            /\ stats' = stats
       /\ (pc = "person" /\ pc' \notin {"person", "done"}) =>
            pc' = "action" /\ number' = number
       /\ (pc = "action" /\ pc' \notin {"action", "done"}) =>
            pc' = "object" /\ number' = number]_vars

\* The acknowledgment of a first encounter was given and the forward test
\* of the key has begun.
C11_Witness ==
    /\ pc = "person"
    /\ Len(number) = 2
    /\ Attempts(stats, number) = 0
    /\ rand = None

\* C12, as claimed: on any dataset, also one with gaps, every item
\* select_number_for_training returns is a key or a triple of keys that
\* have an association, presenting it never fails, and a session that has
\* ended has run save_stats.
C12_SparseDegradesGracefully ==
    /\ number # <<>> =>
         /\ \A k \in Pairs(number) : HasAssoc(pao_data, k)
         /\ pc # "keyerror"
    /\ pc = "done" => save_result \in SaveOutcomes

\* The components of the keys answered correctly at least once and tested
\* within 48 hours.
LearnedComponents(d, p, t) ==
    LET ks == {k \in RecentlyLearned(d, t) : HasAssoc(p, k)} IN
    [persons |-> {Assoc(p, k).person : k \in ks},
     actions |-> {Assoc(p, k).action : k \in ks},
     objects |-> {Assoc(p, k).object : k \in ks}]

\* The condition of the combination challenge: at least 2 of the three
\* components of key n are learned components, and n was not tested within
\* the last 24 hours.
Qualifies(d, p, t, n) ==
    LET lc == LearnedComponents(d, p, t)
        a == Assoc(p, n)
        shared == {c \in {"person", "action", "object"} :
                     \/ c = "person" /\ a.person \in lc.persons
                     \/ c = "action" /\ a.action \in lc.actions
                     \/ c = "object" /\ a.object \in lc.objects}
    IN /\ Cardinality(shared) >= 2
       /\ ~(Rec(d, n).last_tested # None
            /\ Rec(d, n).last_tested >= t - RestHours)

\* C13, as claimed: a single key presented by test_number_comprehensive is
\* presented as a combination challenge exactly when it has at least 2 of
\* its components among those of the keys answered correctly and tested
\* within 48 hours and was itself not tested within 24 hours; and the
\* grading of a key counts one attempt in its Record whatever the flag.
C13_ChallengeFlag ==
    [][/\ (Selects /\ Len(number') = 2) =>
            (Qualifies(stats, pao_data, now, number')
                <=> (is_combination_test' /\ pc' # "study"))
       /\ GradesKey =>
            CountsOneAttempt(Rec(stats, number), Rec(stats', number),
                             correct' = "yes")]_vars

\* The values random.choice or the fallback can return in a band, combos
\* being the combination sequences generated.
BandValues(d, t, combos, band) ==
    CASE band = "very_recent" ->
            Range(get_recent_numbers(d, t, VeryRecentHours, VeryRecentCount))
      [] band = "recent" ->
            Range(get_recent_numbers(d, t, RecentHours, RecentCount))
      [] band = "weak" -> Range(weak_numbers(d))
      [] band = "combination" -> Range(combos)
      [] band = "random" -> AllKeys

\* C14: in every ledger state the weak pool is not empty; for every draw
\* below 0.65 select_number_for_training returns from the very recent, the
\* recent or the weak band a key of the ledger, never a sequence and never
\* by the fallback; the fallback is taken only for a draw of at least 0.80,
\* or of at least 0.65 when there is no combination sequence.
C14_WeakPoolNeverEmpty ==
    /\ weak_numbers(stats) # <<>>
    /\ \A r \in RandDraws, seed \in Seeds :
         LET band == selected_band(stats, now, r, seed)
             returned == select_number_for_training(stats, now, r, seed)
             combos ==
                generate_combination_sequences(stats, now, ComboCount, seed)
         IN /\ returned = BandValues(stats, now, combos, band)
            /\ returned # {}
            /\ r < WeakBand =>
                 /\ band \in {"very_recent", "recent", "weak"}
                 /\ \A n \in returned : Len(n) = 2 /\ HasKey(stats, n)
            /\ band = "random" =>
                 r >= ComboBand \/ (r >= WeakBand /\ combos = <<>>)

\* After a grading event and a move of the clock no key was tested within
\* 8 hours, and the draw 0.34 falls through to the weak band.
C14_Witness ==
    /\ session_stats.total >= 1
    /\ get_recent_numbers(stats, now, RecentHours, RecentCount) = <<>>
    /\ selected_band(stats, now, VeryRecentBand - 1, <<0, 0>>) = "weak"

\* A step of the run made while a combination sequence is presented, or one
\* that ends the run at a prompt of an item by an interrupt or the end of
\* the input.
CombinationStep == Len(number) = SequenceLen

CutShort ==
    /\ pc \in {"study", "person", "action", "object", "number"}
    /\ pc' = "done"

\* C15: in every state of a training session the session total is the
\* session correct plus the session incorrect and is the number of
\* single-key items graded to completion in the run, and the attempts
\* summed over all Records are those at load plus the session total; a
\* combination item and an item cut short by an interrupt or the end of
\* the input add nothing to either.
C15_SessionTotals ==
    /\ [](/\ session_stats.total
               = session_stats.correct + session_stats.incorrect
          /\ session_stats.total = graded
          /\ total_attempts(stats) = attempts_at_load + session_stats.total)
    /\ [][(CombinationStep \/ CutShort) =>
            /\ session_stats' = session_stats
            /\ total_attempts(stats') = total_attempts(stats)]_vars

\* The run was interrupted at the last prompt of an item after another
\* item was graded wrong.
C15_Witness ==
    /\ pc = "done"
    /\ ended_by = "interrupt"
    /\ ended_at = "object"
    /\ session_stats.incorrect >= 1
    /\ total_attempts(stats) > attempts_at_load

=============================================================================
